---- MODULE Spec2Model ----
(***************************************************************************)
(* Validation of autoclave sterilisation cycles recorded in GRS files.     *)
(*                                                                         *)
(* Temperatures and pressures are carried in tenths of a unit (the integer *)
(* codes of the file): the Python value code / 10.0 is represented by the  *)
(* integer code, and every literal of the source is scaled the same way    *)
(* (134.3 is 1343, 18.0 is 180, 310.0 is 3100).                            *)
(***************************************************************************)
EXTENDS Integers, Sequences, FiniteSets, TLC

\* ------------------------------------------------------------------------
\* regnault_validator.py : the table and the pressure check
\* ------------------------------------------------------------------------

\* None of Python, for an absent range.
None == <<>>

REGNAULT_TABLE ==
    [ti \in 134..137 |->
        CASE ti = 134 -> << <<2992, 3092>>, <<3001, 3101>>, <<3010, 3110>>, <<3019, 3119>>,
                            <<3028, 3128>>, <<3037, 3137>>, <<3046, 3146>>, <<3055, 3155>>,
                            <<3064, 3164>>, <<3073, 3173>> >>
          [] ti = 135 -> << <<3082, 3182>>, <<3091, 3191>>, <<3100, 3200>>, <<3110, 3210>>,
                            <<3119, 3219>>, <<3128, 3228>>, <<3137, 3237>>, <<3146, 3246>>,
                            <<3156, 3256>>, <<3165, 3265>> >>
          [] ti = 136 -> << <<3174, 3274>>, <<3184, 3284>>, <<3193, 3293>>, <<3202, 3302>>,
                            <<3212, 3312>>, <<3221, 3321>>, <<3231, 3331>>, <<3240, 3340>>,
                            <<3250, 3350>>, <<3259, 3359>> >>
          [] ti = 137 -> << <<3269, 3369>> >> ]

\* int(temperature): truncation of the float code / 10.0 (codes are >= 0).
IntOfFloat(temperature) == temperature \div 10

\* Sign of the representation error of the double (t - int(t)) * 10 against
\* the exact decimal digit, for t = code / 10.0 with 128.0 <= t < 256.0:
\* the product falls below the digit for 1, 2, 6, 7 and above it for 3, 4, 8, 9.
FloatErr(temperature) ==
    LET k == temperature % 10
    IN  IF k \in {1, 2, 6, 7} THEN -1
        ELSE IF k \in {3, 4, 8, 9} THEN 1 ELSE 0

\* (temperature - temp_int) * 10 as a double, in thousandths.
FracTimes10(temperature, temp_int) ==
    1000 * (temperature - 10 * temp_int) + FloatErr(temperature)

\* round() of Python on a value in thousandths: nearest, ties to even.
Round(x) ==
    LET q == x \div 1000
        r == x % 1000
    IN  IF r > 500 \/ (r = 500 /\ q % 2 = 1) THEN q + 1 ELSE q

\* int() on a value in thousandths: truncation.
Trunc(x) == x \div 1000

DecIndexTrunc(temperature, temp_int) == Trunc(FracTimes10(temperature, temp_int))

temp_dec_index(temperature, temp_int) == Round(FracTimes10(temperature, temp_int))

InRangeStrict(lo, p, hi) == lo < p /\ p < hi

InRange(lo, p, hi) == lo <= p /\ p <= hi

check_pressure_conformity(temperature, pressure) ==
    LET temp_int == IntOfFloat(temperature)
        idx      == temp_dec_index(temperature, temp_int)
    IN  IF temp_int \notin DOMAIN REGNAULT_TABLE
        THEN [status |-> "Temperature hors table", range |-> None]
        ELSE LET pressure_ranges == REGNAULT_TABLE[temp_int]
             IN  IF idx >= Len(pressure_ranges)
                 THEN [status |-> "Decimale de temperature hors table", range |-> None]
                 ELSE LET rng == pressure_ranges[idx + 1]   \* 0-based index of Python
                      IN  IF InRange(rng[1], pressure, rng[2])
                          THEN [status |-> "Conforme", range |-> rng]
                          ELSE [status |-> "Non Conforme", range |-> rng]

\* ------------------------------------------------------------------------
\* Text of a GRS file.  A line is a sequence of tokens; a token is a record
\* [t, n, d]: t names the piece of text, and for a run of decimal digits
\* (t = "num") n is its value and d its number of digits ("0175" is n = 175,
\* d = 4).  "INJ" is the literal 'Injection de vapeur', "PAL" 'Palier de st',
\* "VAP" 'vaporisation', "TS" a text HH:MM:SS (n identifies it), "W" white
\* space, "x" any other text, and "{", "(", "[", ";", "#" themselves.
\* ------------------------------------------------------------------------
Tok(t) == [t |-> t, n |-> 0, d |-> 0]

Num(n, d) == [t |-> "num", n |-> n, d |-> d]

TS(n) == [t |-> "TS", n |-> n, d |-> 0]

\* substring test  'marker' in line
Contains(line, t) == \E i \in 1..Len(line) : line[i].t = t

\* index of the first token t of the line, 0 when there is none
FirstIndex(line, t) ==
    IF Contains(line, t)
    THEN CHOOSE i \in 1..Len(line) :
            /\ line[i].t = t
            /\ \A j \in 1..(i - 1) : line[j].t # t
    ELSE 0

\* str.strip(): drops the white space at both ends
RECURSIVE LStrip(_)
LStrip(line) ==
    IF line # <<>> /\ Head(line).t = "W" THEN LStrip(Tail(line)) ELSE line

RECURSIVE RStrip(_)
RStrip(line) ==
    IF line # <<>> /\ line[Len(line)].t = "W"
    THEN RStrip(SubSeq(line, 1, Len(line) - 1)) ELSE line

Strip(line) == RStrip(LStrip(line))

\* float(text): the text, white space at its ends aside, must be one number.
\* The result is [ok, v]; ok = FALSE stands for ValueError.
Float(text) ==
    LET s == Strip(text)
    IN  IF Len(s) = 1 /\ s[1].t = "num"
        THEN [ok |-> TRUE, v |-> s[1].n]
        ELSE [ok |-> FALSE, v |-> 0]

\* str.split(sep): the fields between the separators
RECURSIVE Split(_, _)
Split(line, sep) ==
    LET i == FirstIndex(line, sep)
    IN  IF i = 0 THEN <<line>>
        ELSE <<SubSeq(line, 1, i - 1)>> \o Split(SubSeq(line, i + 1, Len(line)), sep)

\* value of the first (up to) 4 digits of a run of d digits of value n
RECURSIVE FirstDigits(_, _)
FirstDigits(n, d) == IF d > 4 THEN FirstDigits(n \div 10, d - 1) ELSE n

\* ------------------------------------------------------------------------
\* main.py : analyser_cycle_complet_grs
\* ------------------------------------------------------------------------

\* re.search(r'Injection de vapeur\((\d{3,4})\[(\d{3,4})') succeeds at token i
MatchAt(body, i) ==
    /\ i + 4 <= Len(body)
    /\ body[i].t = "INJ"
    /\ body[i + 1].t = "("
    /\ body[i + 2].t = "num" /\ body[i + 2].d \in 3..4
    /\ body[i + 3].t = "["
    /\ body[i + 4].t = "num" /\ body[i + 4].d >= 3

\* leftmost match of the pattern in the event body, 0 when there is none
match_mesures(body) ==
    IF \E i \in 1..Len(body) : MatchAt(body, i)
    THEN CHOOSE i \in 1..Len(body) :
            MatchAt(body, i) /\ \A j \in 1..(i - 1) : ~MatchAt(body, j)
    ELSE 0

\* re.match(r'(\d{2}:\d{2}:\d{2})') at the start of the event body;
\* 0 stands for the empty string
match_horodatage(body) ==
    IF body # <<>> /\ body[1].t = "TS" THEN body[1].n ELSE 0

PressionLimite == 180

ConformeStrict(pression_vide) == pression_vide < PressionLimite

PhaseConforme(pression_vide) == pression_vide <= PressionLimite

\* One iteration of pass 1: the phases (none or one) a line contributes.
PhaseOfLine(ligne_str) ==
    IF ~Contains(ligne_str, "INJ") THEN <<>>
    ELSE IF ~Contains(ligne_str, "{") THEN <<>>
    ELSE LET k == FirstIndex(ligne_str, "{")
             partie_evenement == Strip(SubSeq(ligne_str, k + 1, Len(ligne_str)))
             m == match_mesures(partie_evenement)
         IN  IF m = 0 THEN <<>>
             ELSE LET temperature_phase == partie_evenement[m + 2].n
                      pression_vide == FirstDigits(partie_evenement[m + 4].n,
                                                   partie_evenement[m + 4].d)
                  IN  << [horodatage    |-> match_horodatage(partie_evenement),
                          temperature_C |-> temperature_phase,
                          pression_kPa  |-> pression_vide,
                          conforme      |-> PhaseConforme(pression_vide)] >>

RECURSIVE Passe1(_)
Passe1(lignes) ==
    IF lignes = <<>> THEN <<>>
    ELSE PhaseOfLine(Head(lignes)) \o Passe1(Tail(lignes))

RECURSIVE PressionsConformes(_)
PressionsConformes(phases) ==
    IF phases = <<>> THEN <<>>
    ELSE (IF Head(phases).conforme THEN <<Head(phases).pression_kPa>> ELSE <<>>)
         \o PressionsConformes(Tail(phases))

\* re.search(r'^#(\d+)\s*(.*)') on a line starting with '#'
ResumeMatch(ligne_str) == Len(ligne_str) >= 2 /\ ligne_str[2].t = "num"

\* Pass 2: the dictionary donnees_resume after the lines, a later line
\* overwriting an earlier one of the same key.  A key is the digit run
\* [n, d]; the value is the rest of the line, stripped.
RECURSIVE Passe2(_, _)
Passe2(lignes, donnees_resume) ==
    IF lignes = <<>> THEN donnees_resume
    ELSE LET ligne_str == Head(lignes)
         IN  IF ligne_str # <<>> /\ ligne_str[1].t = "#" /\ ResumeMatch(ligne_str)
             THEN LET cle    == [n |-> ligne_str[2].n, d |-> ligne_str[2].d]
                      valeur == Strip(SubSeq(ligne_str, 3, Len(ligne_str)))
                  IN  Passe2(Tail(lignes), (cle :> valeur) @@ donnees_resume)
             ELSE Passe2(Tail(lignes), donnees_resume)

Cle40 == [n |-> 40, d |-> 2]

Cle41 == [n |-> 41, d |-> 2]

StripAll(lignes_brutes) == [i \in 1..Len(lignes_brutes) |-> Strip(lignes_brutes[i])]

\* The whole function on the file of the disk.  outcome is "ok" (a record is
\* returned), "FileNotFound" (the empty dictionary is returned) or
\* "ValueError" (float() raised and nothing catches it).
analyser_cycle_complet_grs(fichier) ==
    IF ~fichier.exists THEN [outcome |-> "FileNotFound", donnees |-> <<>>]
    ELSE
    LET lignes == StripAll(fichier.lines)
        phases == Passe1(lignes)
        d0     == [phases_de_vide |-> phases,
                   phases_de_vide_kPa |-> PressionsConformes(phases)]
        donnees_resume == Passe2(lignes, <<>>)
        has40 == Cle40 \in DOMAIN donnees_resume
        has41 == Cle41 \in DOMAIN donnees_resume
        f40 == Float(donnees_resume[Cle40])
        f41 == Float(donnees_resume[Cle41])
        d1 == IF has40 THEN ("temp_min_C" :> f40.v) @@ d0 ELSE d0
        d2 == IF has41 THEN ("temp_max_C" :> f41.v) @@ d1 ELSE d1
    IN  IF has40 /\ ~f40.ok THEN [outcome |-> "ValueError", donnees |-> <<>>]
        ELSE IF has41 /\ ~f41.ok THEN [outcome |-> "ValueError", donnees |-> <<>>]
        ELSE [outcome |-> "ok", donnees |-> d2]

\* ------------------------------------------------------------------------
\* regnault_validator.py : validate_grs_file_content
\* ------------------------------------------------------------------------
ErrorEntry(i, e, line) ==
    [line_number |-> i, line_name |-> "Erreur de parsing",
     error |-> e, original_line |-> line]

\* The entries (none or one) line i contributes.
EntryOfLine(i, line) ==
    IF ~(Contains(line, "PAL") \/ Contains(line, "VAP")) THEN <<>>
    ELSE LET parts == Split(line, "{")
             data  == Split(parts[1], ";")
             f0    == Float(data[1])
         IN  IF ~f0.ok THEN <<ErrorEntry(i, "ValueError", line)>>
             ELSE IF Len(data) < 3 THEN <<ErrorEntry(i, "IndexError", line)>>
             ELSE LET f2 == Float(data[3])
                  IN  IF ~f2.ok THEN <<ErrorEntry(i, "ValueError", line)>>
                      ELSE LET chk == check_pressure_conformity(f0.v, f2.v)
                           IN  << [line_number    |-> i,
                                   line_name      |-> IF Contains(line, "PAL")
                                                      THEN "Palier de sterilisation"
                                                      ELSE "Devaporisation",
                                   temperature    |-> f0.v,
                                   pressure       |-> f2.v,
                                   expected_range |-> chk.range,
                                   status         |-> chk.status] >>

RECURSIVE ScanFrom(_, _)
ScanFrom(lines, i) ==
    IF i > Len(lines) THEN <<>>
    ELSE EntryOfLine(i, lines[i]) \o ScanFrom(lines, i + 1)

validate_grs_file_content(lines) == ScanFrom(lines, 1)

\* ------------------------------------------------------------------------
\* main.py : valider_donnees_completes
\* ------------------------------------------------------------------------
TempMinLimite == 1343

TempMaxLimite == 1364

NombrePhasesMin == 8

HasKey(d, k) == k \in DOMAIN d

\* the loop passing over an entry without 'status' instead of raising
RECURSIVE RegnaultLoopSkip(_, _)
RegnaultLoopSkip(results, regnault_conforme) ==
    IF results = <<>> THEN [raised |-> FALSE, regnault_conforme |-> regnault_conforme]
    ELSE IF ~HasKey(Head(results), "status")
         THEN RegnaultLoopSkip(Tail(results), regnault_conforme)
         ELSE RegnaultLoopSkip(Tail(results),
                               IF Head(results).status # "Conforme" THEN FALSE
                               ELSE regnault_conforme)

\* The loop over regnault_results: result['status'] raises KeyError on an
\* entry that has no 'status'; otherwise regnault_conforme is cleared by
\* every status other than "Conforme".
\* outcome: "KeyError", or "ok" with the final regnault_conforme.
RECURSIVE RegnaultLoop(_, _)
RegnaultLoop(results, regnault_conforme) ==
    IF results = <<>> THEN [raised |-> FALSE, regnault_conforme |-> regnault_conforme]
    ELSE IF ~HasKey(Head(results), "status")
         THEN [raised |-> TRUE, regnault_conforme |-> regnault_conforme]
         ELSE RegnaultLoop(Tail(results),
                           IF Head(results).status # "Conforme" THEN FALSE
                           ELSE regnault_conforme)

\* rule 1 with exclusive bounds
Regle1Strict(donnees, ok) ==
    IF HasKey(donnees, "temp_min_C") /\ HasKey(donnees, "temp_max_C")
    THEN IF ~(donnees.temp_min_C > TempMinLimite) \/ ~(donnees.temp_max_C < TempMaxLimite)
         THEN FALSE ELSE ok
    ELSE FALSE

\* Rule 1: the value of validation_globale_ok after the section.
Regle1(donnees, ok) ==
    IF HasKey(donnees, "temp_min_C") /\ HasKey(donnees, "temp_max_C")
    THEN LET is_min_valid == donnees.temp_min_C >= TempMinLimite
             is_max_valid == donnees.temp_max_C <= TempMaxLimite
         IN  IF ~is_min_valid \/ ~is_max_valid THEN FALSE ELSE ok
    ELSE FALSE

\* rule 2 counting every phase, compliant or not
Regle2Total(donnees, ok) ==
    IF HasKey(donnees, "phases_de_vide") /\ donnees.phases_de_vide # <<>>
    THEN IF ~(Len(donnees.phases_de_vide) >= NombrePhasesMin) THEN FALSE ELSE ok
    ELSE FALSE

\* Rule 2: the value of validation_globale_ok after the section.
Regle2(donnees, ok) ==
    IF HasKey(donnees, "phases_de_vide") /\ donnees.phases_de_vide # <<>>
    THEN LET phases == donnees.phases_de_vide
             phases_conformes == SelectSeq(phases, LAMBDA phase : phase.conforme)
             nombre_phases == Len(phases_conformes)
             is_nombre_ok == nombre_phases >= NombrePhasesMin
             is_pressions_ok == is_nombre_ok
         IN  IF ~is_nombre_ok \/ ~is_pressions_ok THEN FALSE ELSE ok
    ELSE FALSE

\* Rule 3: the file named by the global fichier_grs is opened and read again;
\* any exception of the section is caught and clears validation_globale_ok.
\* Gives the scan result the section obtained and the flag after the section.
Regle3(fichier, ok) ==
    IF ~fichier.exists
    THEN [regnault_results |-> <<>>, exception |-> TRUE, ok |-> FALSE]
    ELSE LET regnault_results == validate_grs_file_content(fichier.lines)
         IN  IF regnault_results = <<>>
             THEN [regnault_results |-> regnault_results, exception |-> FALSE, ok |-> FALSE]
             ELSE LET loop == RegnaultLoop(regnault_results, TRUE)
                  IN  IF loop.raised
                      THEN [regnault_results |-> regnault_results,
                            exception |-> TRUE, ok |-> FALSE]
                      ELSE [regnault_results |-> regnault_results,
                            exception |-> FALSE,
                            ok |-> IF ~loop.regnault_conforme THEN FALSE ELSE ok]

\* the function with the flag set again to True before rule 3
ValiderResets(donnees, fichier) ==
    LET r3 == Regle3(fichier, TRUE)
    IN  [validation_globale_ok |-> r3.ok,
         regle1 |-> Regle1(donnees, TRUE),
         regle2 |-> Regle2(donnees, TRUE),
         regle3 |-> r3.ok,
         regnault_results |-> r3.regnault_results,
         exception |-> r3.exception]

\* The whole function: validation_globale_ok starts True and goes through the
\* three sections.  regle1..regle3 tell whether the section left the flag
\* alone (the rule is conformant).
valider_donnees_completes(donnees, fichier) ==
    LET ok1 == Regle1(donnees, TRUE)
        ok2 == Regle2(donnees, ok1)
        r3  == Regle3(fichier, ok2)
    IN  [validation_globale_ok |-> r3.ok,
         regle1 |-> Regle1(donnees, TRUE),
         regle2 |-> Regle2(donnees, TRUE),
         regle3 |-> Regle3(fichier, TRUE).ok,
         regnault_results |-> r3.regnault_results,
         exception |-> r3.exception]

\* ------------------------------------------------------------------------
\* Input files
\* ------------------------------------------------------------------------
MaxLines == 2

MaxOK == 9

MaxBad == 14

TempLo == 1330

TempHi == 1389

PressLo == 2980

PressHi == 3380

W == Tok("W")

X == Tok("x")

\* fields before the brace of an event line: '<temp>;<text>;<press>{'
Pre(t, p) == <<Num(t, 4), Tok(";"), X, Tok(";"), Num(p, 4), Tok("{")>>

\* 'Injection de vapeur(<t>[<p>...' with its digits counts
Inj(t, td, p, pd) == <<Tok("INJ"), Tok("("), Num(t, td), Tok("["), Num(p, pd), X>>

VacLine(p) == Pre(1204, p) \o <<TS(1), W>> \o Inj(1353, 4, p, 4)

VacuumLines ==
    { VacLine(p) : p \in {175, 180, 181} }
    \cup { Pre(1204, 175) \o Inj(1353, 4, 175, 4),                    \* no timestamp
           <<TS(1), W>> \o Inj(1353, 4, 175, 4),                      \* no brace
           Inj(1353, 4, 175, 4) \o <<Tok("{"), X>>,                   \* marker before the brace
           Pre(1204, 175) \o <<TS(1), W>> \o Inj(13530, 5, 175, 4),   \* 5-digit temperature
           Pre(1204, 175) \o <<TS(1), W>> \o Inj(1353, 4, 17, 2),     \* 2-digit pressure
           Pre(1204, 175) \o <<X, TS(2)>> \o Inj(999, 3, 1859, 5),    \* '01859': first 4 digits
           Pre(1204, 175) \o <<W, TS(2), W, Tok("INJ"), X>> \o Inj(1353, 4, 185, 3) \o <<W>> }

SumLine(k, v) == <<Tok("#"), Num(k, 2), W, Num(v, 4)>>

SummaryLines ==
    { SumLine(40, v) : v \in {1342, 1343} }
    \cup { SumLine(41, v) : v \in {1364, 1365} }
    \cup { <<Tok("#"), Num(40, 2)>>,                       \* '#40'
           <<Tok("#"), W, Num(40, 2), W, Num(1343, 4)>>,   \* '# 40 1343'
           <<W>> \o SumLine(41, 1364) \o <<W>> }

RegLine(t, p, m) == Pre(t, p) \o <<TS(3), W, Tok(m), X>>

RegnaultLines ==
    { RegLine(1353, 3110, "PAL"), RegLine(1353, 3109, "PAL"),
      RegLine(1352, 3100, "VAP"), RegLine(1371, 3300, "PAL"),
      RegLine(1380, 3300, "VAP"),
      <<Num(1353, 4), Tok(";"), X, Tok("{"), Tok("PAL")>>,               \* 2 fields
      <<X, Tok(";"), X, Tok(";"), Num(3110, 4), Tok("{"), Tok("VAP")>>,  \* field 0 not a number
      Pre(1353, 3110) \o Inj(1353, 4, 175, 4) \o <<Tok("VAP")>> }

Catalogue == VacuumLines \cup SummaryLines \cup RegnaultLines \cup {<<X>>}

RECURSIVE SeqsUpTo(_, _)
SeqsUpTo(S, n) ==
    IF n = 0 THEN {<<>>}
    ELSE LET shorter == SeqsUpTo(S, n - 1)
         IN  shorter \cup { Append(f, l) : f \in shorter, l \in S }

Repeat(l, n) == [i \in 1..n |-> l]

\* files of a whole cycle: b vacuum phases above the limit, a phases within
\* it, the summary lines and the plateau and devaporization lines
SummaryBlocks ==
    { <<SumLine(40, 1343), SumLine(41, 1364)>>,
      <<SumLine(40, 1342), SumLine(41, 1364)>>,
      <<SumLine(40, 1343), SumLine(41, 1365)>>,
      <<SumLine(40, 1342), SumLine(40, 1343), SumLine(41, 1364)>>,
      <<SumLine(40, 1343)>> }

RegnaultBlocks ==
    { <<RegLine(1353, 3110, "PAL"), RegLine(1352, 3100, "VAP")>>,
      <<RegLine(1353, 3110, "PAL"), RegLine(1353, 3109, "PAL")>>,
      <<RegLine(1353, 3110, "PAL"), <<Num(1353, 4), Tok(";"), X, Tok("{"), Tok("PAL")>> >>,
      <<>> }

CycleFiles ==
    { Repeat(VacLine(185), b) \o Repeat(VacLine(175), a) \o s \o r :
        a \in 0..MaxOK, b \in 0..MaxBad, s \in SummaryBlocks, r \in RegnaultBlocks }

File(lines) == [exists |-> TRUE, lines |-> lines]

NoFile == [exists |-> FALSE, lines |-> <<>>]

Files == { File(l) : l \in SeqsUpTo(Catalogue, MaxLines) \cup CycleFiles } \cup {NoFile}

\* what the file may have become between the two reads of the program
Replacements == { NoFile, File(<<RegLine(1353, 3110, "PAL")>>) }

\* ------------------------------------------------------------------------
\* The program
\* ------------------------------------------------------------------------
VARIABLES pc, disk, rawAtParse, donnees_extraites, report, temperature, pressure, result

vars == <<pc, disk, rawAtParse, donnees_extraites, report, temperature, pressure, result>>

NoReport == <<>>

NoResult == [status |-> "", range |-> None]

Init ==
    /\ pc = "start"
    /\ disk \in Files
    /\ rawAtParse = NoFile
    /\ donnees_extraites = <<>>
    /\ report = NoReport
    /\ temperature = 0
    /\ pressure = 0
    /\ result = NoResult

\* donnees_extraites = analyser_cycle_complet_grs(fichier_grs)
Analyse ==
    /\ pc = "start"
    /\ LET r == analyser_cycle_complet_grs(disk)
       IN  /\ donnees_extraites' = r.donnees
           /\ pc' = IF r.outcome = "ValueError" THEN "crashed" ELSE "analysed"
    /\ rawAtParse' = disk
    /\ UNCHANGED <<disk, report, temperature, pressure, result>>

\* if donnees_extraites: valider_donnees_completes(donnees_extraites)
Valider ==
    /\ pc = "analysed"
    /\ DOMAIN donnees_extraites # {}
    /\ report' = valider_donnees_completes(donnees_extraites, disk)
    /\ pc' = "done"
    /\ UNCHANGED <<disk, rawAtParse, donnees_extraites, temperature, pressure, result>>

\* else: logger.error("Aucune donnee n'a pu etre extraite du fichier.")
AucuneDonnee ==
    /\ pc = "analysed"
    /\ DOMAIN donnees_extraites = {}
    /\ pc' = "no_data"
    /\ UNCHANGED <<disk, rawAtParse, donnees_extraites, report, temperature, pressure, result>>

\* The environment rewrites or removes the file after it was analysed.
FileChanged ==
    /\ pc = "analysed"
    /\ disk' \in Replacements \ {disk}
    /\ UNCHANGED <<pc, rawAtParse, donnees_extraites, report, temperature, pressure, result>>

Next == Analyse \/ Valider \/ AucuneDonnee \/ FileChanged

Spec == Init /\ [][Next]_vars

\* check_pressure_conformity on its own, over a grid of inputs
InitCheck ==
    /\ pc = "check"
    /\ disk = NoFile
    /\ rawAtParse = NoFile
    /\ donnees_extraites = <<>>
    /\ report = NoReport
    /\ temperature \in TempLo..TempHi
    /\ pressure \in PressLo..PressHi
    /\ result = NoResult

Check ==
    /\ pc = "check"
    /\ result' = check_pressure_conformity(temperature, pressure)
    /\ pc' = "checked"
    /\ UNCHANGED <<disk, rawAtParse, donnees_extraites, report, temperature, pressure>>

NextCheck == Check

SpecCheck == InitCheck /\ [][NextCheck]_vars

\* ------------------------------------------------------------------------
\* Properties
\* ------------------------------------------------------------------------

\* The rules as the specification words them.
Parsed == pc \in {"analysed", "done"} /\ DOMAIN donnees_extraites # {}

Rule1(d) ==
    /\ HasKey(d, "temp_min_C") /\ HasKey(d, "temp_max_C")
    /\ d.temp_min_C >= 1343
    /\ d.temp_max_C <= 1364

NbCompliant(d) ==
    IF HasKey(d, "phases_de_vide")
    THEN Cardinality({ k \in 1..Len(d.phases_de_vide) : d.phases_de_vide[k].conforme })
    ELSE 0

Rule2(d) == NbCompliant(d) >= 8

Rule3(f) ==
    /\ f.exists
    /\ LET scan == validate_grs_file_content(f.lines)
       IN  /\ scan # <<>>
           /\ \A k \in 1..Len(scan) :
                 HasKey(scan[k], "status") /\ scan[k].status = "Conforme"

\* The summary lines of key k in the text, and the value of the last one.
SummaryIdx(L, k) ==
    { i \in 1..Len(L) :
        LET s == Strip(L[i]) IN Len(s) >= 2 /\ s[1].t = "#" /\ s[2] = Num(k, 2) }

SummaryValue(L, k) ==
    LET i == CHOOSE i \in SummaryIdx(L, k) : \A j \in SummaryIdx(L, k) : j <= i
        s == Strip(L[i])
    IN  Float(SubSeq(s, 3, Len(s))).v

Rule1OfText(L) ==
    /\ SummaryIdx(L, 40) # {} /\ SummaryIdx(L, 41) # {}
    /\ SummaryValue(L, 40) >= 1343
    /\ SummaryValue(L, 41) <= 1364

\* C1: the final verdict of valider_donnees_completes is 'conformant' exactly
\* when rule 1, rule 2 and rule 3 are all conformant, rule 3 being taken on
\* the file as it is read by the validation; a rule whose data is missing
\* (a summary temperature, the phases, the file or its plateau lines) is not
\* conformant, so the verdict is then never 'conformant'.
C1_VerdictIsConjunction ==
    pc = "done" =>
        /\ report.validation_globale_ok
             = (Rule1(donnees_extraites) /\ Rule2(donnees_extraites) /\ Rule3(disk))
        /\ (\/ ~HasKey(donnees_extraites, "temp_min_C")
            \/ ~HasKey(donnees_extraites, "temp_max_C")
            \/ donnees_extraites.phases_de_vide = <<>>
            \/ ~disk.exists
            \/ validate_grs_file_content(disk.lines) = <<>>)
           => ~report.validation_globale_ok

C1_Witness ==
    /\ pc = "done"
    /\ report.validation_globale_ok
    /\ Len(donnees_extraites.phases_de_vide) > 8

\* C2: rule 1 is conformant exactly when both summary temperatures are in the
\* record, temp_min_C >= 134.3 and temp_max_C <= 136.4, bounds included: the
\* codes #40 1343 and #41 1364 pass, #40 1342 or #41 1365 fail, and a record
\* without one of the two fields fails.
C2_Rule1 ==
    pc = "done" =>
        /\ report.regle1 = Rule1(donnees_extraites)
        /\ report.regle1 = Rule1OfText(rawAtParse.lines)

C2_Witness ==
    /\ pc = "done"
    /\ HasKey(donnees_extraites, "temp_min_C") /\ donnees_extraites.temp_min_C = 1343
    /\ HasKey(donnees_extraites, "temp_max_C") /\ donnees_extraites.temp_max_C = 1364
    /\ report.regle1

\* C3: rule 2 is conformant exactly when at least 8 phases have their
\* 'conforme' flag set, whatever the number of phases: 8 compliant phases
\* pass, 7 fail, 20 phases of which 6 are compliant fail, no phase fails.
C3_Rule2 ==
    pc = "done" => report.regle2 = Rule2(donnees_extraites)

C3_Witness ==
    /\ pc = "done"
    /\ Len(donnees_extraites.phases_de_vide) = 20
    /\ NbCompliant(donnees_extraites) = 6
    /\ ~report.regle2

\* C4: rule 3 is conformant exactly when the scan of the plateau and
\* devaporization lines is not empty and every entry has status Conforme; an
\* empty scan fails, and so does one entry that is Non Conforme, out of the
\* table or a parse error among conformant entries, with the overall verdict.
C4_Rule3 ==
    pc = "done" =>
        /\ report.regle3 = Rule3(disk)
        /\ ~Rule3(disk) => ~report.validation_globale_ok

C4_Witness ==
    /\ pc = "done"
    /\ ~report.regle3
    /\ Len(report.regnault_results) = 2
    /\ HasKey(report.regnault_results[1], "status")
    /\ report.regnault_results[1].status = "Conforme"
    /\ ~HasKey(report.regnault_results[2], "status")

\* The table cell of a temperature code, as the specification words it:
\* the integer degree and the tenth of a degree of the decimal writing.
Degree(t) == t \div 10

Decile(t) == t % 10

HasCell(t) ==
    \/ Degree(t) \in 134..136
    \/ Degree(t) = 137 /\ Decile(t) = 0

\* C5: for a temperature in tenths of a degree and any pressure,
\* check_pressure_conformity gives 'Temperature hors table' and no range when
\* the degree is not in 134..137, 'Decimale de temperature hors table' and no
\* range when the degree has no entry for the decile (137 with a decile other
\* than 0), and otherwise the range of the cell with Conforme when
\* min <= pressure <= max and Non Conforme when not; a range is returned
\* exactly with Conforme and Non Conforme.
C5_CheckClassifies ==
    pc = "checked" =>
        /\ Degree(temperature) \notin 134..137
             => result.status = "Temperature hors table" /\ result.range = None
        /\ (Degree(temperature) = 137 /\ Decile(temperature) # 0)
             => result.status = "Decimale de temperature hors table" /\ result.range = None
        /\ HasCell(temperature)
             => LET cell == REGNAULT_TABLE[Degree(temperature)][Decile(temperature) + 1]
                IN  /\ result.range = cell
                    /\ result.status = IF cell[1] <= pressure /\ pressure <= cell[2]
                                       THEN "Conforme" ELSE "Non Conforme"
        /\ (result.range # None) <=> (result.status \in {"Conforme", "Non Conforme"})

C5_Witness ==
    /\ pc = "checked"
    /\ temperature = 1347
    /\ result.status = "Conforme"
    /\ pressure = result.range[2]

\* C6 as stated: check(135.3, 310.0) is Conforme with the range (310.0, 320.0)
\* and check(135.3, 309.9) is Non Conforme.
C6_Original ==
    /\ (pc = "checked" /\ temperature = 1353 /\ pressure = 3100)
         => (result.status = "Conforme" /\ result.range = <<3100, 3200>>)
    /\ (pc = "checked" /\ temperature = 1353 /\ pressure = 3099)
         => result.status = "Non Conforme"

\* C6 amended: the cell of degree 135, decile 3 is (311.0, 321.0) and its
\* lower bound is inclusive: check(135.3, 311.0) is Conforme with that range,
\* check(135.3, 310.9), check(135.3, 310.0) and check(135.3, 309.9) are Non
\* Conforme with that range.
C6_Cell135_3 ==
    (pc = "checked" /\ temperature = 1353) =>
        /\ result.range = <<3110, 3210>>
        /\ pressure = 3110 => result.status = "Conforme"
        /\ pressure \in {3109, 3100, 3099} => result.status = "Non Conforme"

C6_Witness ==
    /\ pc = "checked"
    /\ temperature = 1353
    /\ pressure = 3110
    /\ result.status = "Conforme"

\* C7: a file that can be read is always analysed to a record, and a verdict
\* follows: no line, whatever it holds, aborts the analysis; only a file that
\* cannot be opened gives no record.
C7_NoAbort ==
    (pc # "start" /\ rawAtParse.exists) =>
        /\ pc \in {"analysed", "done"}
        /\ HasKey(donnees_extraites, "phases_de_vide")

\* The lines of the text the scan selects, and those among them whose fields
\* cannot be read.
MarkerIdx(L) == { i \in 1..Len(L) : Contains(L[i], "PAL") \/ Contains(L[i], "VAP") }

Malformed(line) ==
    LET data == Split(Split(line, "{")[1], ";")
    IN  \/ Len(data) < 3
        \/ ~Float(data[1]).ok
        \/ ~Float(data[3]).ok

\* C8: validate_grs_file_content gives one entry for each line holding a
\* plateau or devaporization marker, in ascending order of 1-based line
\* number; a marker line with fewer than 3 fields before the first brace, or
\* whose field 0 or 2 is not a number, is kept as an entry with its line
\* number, its text, no temperature or pressure, and status ParseError.
C8_ScanEntries ==
    (pc = "done" /\ disk.exists) =>
        LET L   == disk.lines
            res == report.regnault_results
        IN  /\ Len(res) = Cardinality(MarkerIdx(L))
            /\ \A k \in 1..Len(res) : res[k].line_number \in MarkerIdx(L)
            /\ \A k \in 1..(Len(res) - 1) : res[k].line_number < res[k + 1].line_number
            /\ \A k \in 1..Len(res) :
                  Malformed(L[res[k].line_number]) =>
                      /\ HasKey(res[k], "original_line")
                      /\ res[k].original_line = L[res[k].line_number]
                      /\ ~HasKey(res[k], "temperature")
                      /\ ~HasKey(res[k], "pressure")
                      /\ HasKey(res[k], "status")
                      /\ res[k].status = "ParseError"

\* C9: the verdict is a function of the record made by the analysis: rule 3
\* is taken on the text as it was when the file was analysed, whatever became
\* of the file afterwards.
C9_VerdictOfRecord ==
    pc = "done" =>
        report.validation_globale_ok
          = (Rule1(donnees_extraites) /\ Rule2(donnees_extraites) /\ Rule3(rawAtParse))

\* The lines of the text that give a vacuum phase, as the specification words
\* them: the marker and a brace are in the line, and the text after the first
\* brace holds marker, '(', 3-4 digits, '[', 3 digits or more.
PhaseAt(line, i) ==
    /\ \E j \in 1..(i - 1) : line[j].t = "{"
    /\ i + 4 <= Len(line)
    /\ <<line[i].t, line[i + 1].t, line[i + 2].t, line[i + 3].t, line[i + 4].t>>
         = <<"INJ", "(", "num", "[", "num">>
    /\ line[i + 2].d \in {3, 4}
    /\ line[i + 4].d >= 3

PhaseIdx(L) == { i \in 1..Len(L) : \E k \in 1..Len(L[i]) : PhaseAt(L[i], k) }

\* the rank of i among the elements of a set of numbers
Rank(S, i) == Cardinality({ j \in S : j <= i })

FirstPhaseAt(line) ==
    CHOOSE k \in 1..Len(line) : PhaseAt(line, k) /\ \A j \in 1..(k - 1) : ~PhaseAt(line, j)

\* C10: the phase list holds, in the order of the file, one phase for each
\* line with the marker, a brace and a matching event body, and nothing for
\* another line, with or without a leading timestamp; the temperature and the
\* pressure of a phase are the codes of its line, and 'conforme' is set
\* exactly when the pressure is <= 18.0.
C10_Phases ==
    Parsed =>
        LET L   == rawAtParse.lines
            ph  == donnees_extraites.phases_de_vide
            idx == PhaseIdx(L)
        IN  /\ Len(ph) = Cardinality(idx)
            /\ \A i \in idx :
                  LET k == Rank(idx, i)
                      m == FirstPhaseAt(L[i])
                  IN  /\ ph[k].temperature_C = L[i][m + 2].n
                      /\ ph[k].pression_kPa
                           = FirstDigits(L[i][m + 4].n, L[i][m + 4].d)
                      /\ ph[k].conforme = (ph[k].pression_kPa <= 180)

C10_Witness ==
    /\ Parsed
    /\ Len(rawAtParse.lines) = 2
    /\ Len(donnees_extraites.phases_de_vide) = 1
    /\ donnees_extraites.phases_de_vide[1].horodatage = 0
    /\ donnees_extraites.phases_de_vide[1].pression_kPa = 175
    /\ donnees_extraites.phases_de_vide[1].conforme

====
